---- MODULE Spec2Model ----
(***************************************************************************)
(* State-machine model of 49_WebServer_Control_by_Web_or_Python.ino: an    *)
(* ESP32 sketch that joins a WiFi network, registers eight GET routes and  *)
(* a not-found handler on a WebServer, and then runs the Arduino loop:     *)
(* server.handleClient(); updateSensorData(); delay(10).                   *)
(*                                                                         *)
(* The sketch's own statements are modelled one operator per statement     *)
(* (DigitalWrite, SetLedState, ServerSend, ...) over a record of the       *)
(* device's memory, and each handler is the composition of its statements  *)
(* in source order.  What the sketch reads from outside (WiFi.status(),    *)
(* the pending TCP request, analogRead, digitalRead, ESP.getFreeHeap())    *)
(* is an input drawn from a small set.                                     *)
(***************************************************************************)
EXTENDS Integers, Sequences, FiniteSets, TLC

(***************************************************************************)
(* Bounds of the model.                                                    *)
(***************************************************************************)
\* requests that arrive after boot (served plus still pending)
MaxRequests == 3
\* requests the network layer holds for the server at one time
MaxPending == 2
\* requests that arrive after boot in the specification with fairness
MaxBootRequests == 2
\* requests that arrive after boot in the specification of two devices
MaxTwinRequests == 1

(***************************************************************************)
(* Program constants.                                                      *)
(***************************************************************************)
ledPin == 27
relayPin == 4
analogPin == 34
buttonPin == 35
LOW == 0
HIGH == 1
AdcMax == 4095

OutputPins == {ledPin, relayPin}
Levels == {LOW, HIGH}

\* values analogRead(analogPin) returns in the model: both ends of the range
AnalogSamples == {0, AdcMax}
\* values ESP.getFreeHeap() returns in the model
FreeHeapSamples == {200000}

\* WiFi.status() values; WL_NO_SHIELD stands for "not polled yet"
WL_CONNECTED == "WL_CONNECTED"
WlStatus == {"WL_IDLE_STATUS", "WL_DISCONNECTED", WL_CONNECTED}
IpUnset == "0.0.0.0"
IpAssigned == "192.168.1.50"
MacAddress == "AA:BB:CC:DD:EE:FF"
ChipId == "efuse-mac"

\* the handlers' message strings (ASCII glosses of the Chinese literals)
MsgLedOn == "LED yi dakai"
MsgLedOff == "LED yi guanbi"
MsgRelayOn == "jidianqi yi dakai"
MsgRelayOff == "jidianqi yi guanbi"
MsgNotFound == "API duandian bu cunzai"

(***************************************************************************)
(* Requests: a method and a path.                                          *)
(***************************************************************************)
Req(m, p) == [method |-> m, uri |-> p]

RegisteredPaths ==
    {"/", "/api/device/info", "/api/led/on", "/api/led/off", "/api/led/toggle",
     "/api/relay/on", "/api/relay/off", "/api/sensor/data"}

\* the requests the model sends: every registered GET, an unknown path and a
\* registered path with another method
Requests ==
    {Req("GET", p) : p \in RegisteredPaths}
        \cup {Req("GET", "/api/nope"), Req("POST", "/api/led/on")}

VARIABLES
    pc,           \* position of the sketch: setup steps, then the loop's three calls
    wifiStatus,   \* the value the last WiFi.status() call returned
    localIP,      \* WiFi.localIP()
    html,         \* the global String html
    routes,       \* handlers registered with server.on, in registration order
    notFound,     \* handler registered with server.onNotFound ("none" before)
    listening,    \* server.begin() was called
    ledState, relayState, analogValue, buttonState,   \* the sketch's globals
    pin,          \* level last written to each output pin
    pending,      \* requests accepted by the network layer, not yet handled
    served,       \* requests handled since boot, in order
    wire,         \* responses sent with server.send since boot, in order
    observed,     \* the device as it was at the moment each response was sent
    turnTrace,    \* what the current loop turn has done so far
    lastRead,     \* what the latest analogRead and digitalRead returned (<<>> before)
    twin          \* a second device served the same requests (switched off in Spec)

vars == <<pc, wifiStatus, localIP, html, routes, notFound, listening,
          ledState, relayState, analogValue, buttonState, pin,
          pending, served, wire, observed, turnTrace, lastRead, twin>>

netVars == <<wifiStatus, localIP, html, routes, notFound, listening>>
devVars == <<ledState, relayState, analogValue, buttonState, pin>>
logVars == <<pending, served, wire, observed, turnTrace, lastRead>>

Last(s) == s[Len(s)]

\* bool -> pin level, as digitalWrite(pin, bool) converts it
Level(b) == IF b THEN HIGH ELSE LOW

(***************************************************************************)
(* The String html: three pieces concatenated around                       *)
(* WiFi.localIP().toString(), evaluated when the global is initialised.    *)
(***************************************************************************)
HtmlDoc(ip) == <<"<html>...<strong>IP:</strong> ", ip, "</p>...</html>">>

(***************************************************************************)
(* The device memory a handler works on.                                   *)
(***************************************************************************)
Machine ==
    [ledState |-> ledState, relayState |-> relayState,
     analogValue |-> analogValue, buttonState |-> buttonState,
     pin |-> pin, wire |-> wire, observed |-> observed]

\* what an onlooker of the board sees at one instant
Snapshot(m) ==
    [ledState |-> m.ledState, relayState |-> m.relayState, pin |-> m.pin]

DigitalWrite(m, p, level) == [m EXCEPT !.pin[p] = level]
SetLedState(m, v) == [m EXCEPT !.ledState = v]
SetRelayState(m, v) == [m EXCEPT !.relayState = v]

\* a sampling pass that copies the button level to the LED pin
SampledPassthrough(m, a, lv) ==
    [m EXCEPT !.analogValue = a, !.buttonState = (lv # LOW), !.pin[ledPin] = lv]

\* a sampling pass that smooths the analog value and latches the button
SampledSmoothed(m, a, lv) ==
    [m EXCEPT !.analogValue = (m.analogValue + a) \div 2,
              !.buttonState = (m.buttonState \/ lv # LOW)]

\* analogValue = analogRead(analogPin); buttonState = digitalRead(buttonPin);
\* the int digitalRead returns becomes a bool
Sampled(m, a, lv) ==
    [m EXCEPT !.analogValue = a, !.buttonState = (lv # LOW)]

\* server.send(status, contentType, body)
ServerSend(m, status, ctype, body) ==
    [m EXCEPT !.wire = Append(@, [status |-> status, ctype |-> ctype, body |-> body]),
              !.observed = Append(@, Snapshot(m))]

sendSuccessResponse(m, message) ==
    ServerSend(m, 200, "application/json",
               [success |-> TRUE, message |-> message,
                led_state |-> m.ledState, relay_state |-> m.relayState])

(***************************************************************************)
(* What a handler reads from the platform while it runs.                   *)
(***************************************************************************)
Platform(heap) ==
    [ip |-> localIP, mac |-> MacAddress, freeHeap |-> heap,
     chipId |-> ChipId, html |-> html]

\* a conversion that divides by the number of ADC codes, 4096
VoltageByCodeCount(a) == [num |-> a * 33, den |-> 10 * (AdcMax + 1)]

\* (analogValue * 3.3) / 4095.0 as an exact fraction
Voltage(a) == [num |-> a * 33, den |-> 10 * AdcMax]

(***************************************************************************)
(* The handlers of setupRoutes, each the composition of its statements in  *)
(* source order.                                                           *)
(***************************************************************************)
\* a root handler that builds the page again with the address of the moment
HandleRootRebuilt(m, env) ==
    ServerSend(m, 200, "text/html", [document |-> HtmlDoc(env.ip)])

HandleRoot(m, env) ==
    ServerSend(m, 200, "text/html", [document |-> env.html])

HandleDeviceInfo(m, env) ==
    ServerSend(m, 200, "application/json",
               [device |-> "ESP32", ip |-> env.ip, mac |-> env.mac,
                free_heap |-> env.freeHeap, chip_id |-> env.chipId])

\* an "on" handler that flips the LED
HandleLedOnFlip(m, env) ==
    LET m1 == DigitalWrite(m, ledPin, Level(~m.ledState))
        m2 == SetLedState(m1, ~m1.ledState)
    IN  sendSuccessResponse(m2, MsgLedOn)

HandleLedOn(m, env) ==
    LET m1 == DigitalWrite(m, ledPin, HIGH)
        m2 == SetLedState(m1, TRUE)
    IN  sendSuccessResponse(m2, MsgLedOn)

HandleLedOff(m, env) ==
    LET m1 == DigitalWrite(m, ledPin, LOW)
        m2 == SetLedState(m1, FALSE)
    IN  sendSuccessResponse(m2, MsgLedOff)

\* a toggle that assigns instead of negating: ledState = true
HandleLedToggleAssign(m, env) ==
    LET m1 == SetLedState(m, TRUE)
        m2 == DigitalWrite(m1, ledPin, Level(m1.ledState))
    IN  sendSuccessResponse(m2, IF m2.ledState THEN MsgLedOn ELSE MsgLedOff)

\* a toggle that writes the pin before it negates the field
HandleLedToggleStalePin(m, env) ==
    LET m1 == DigitalWrite(m, ledPin, Level(m.ledState))
        m2 == SetLedState(m1, ~m1.ledState)
    IN  sendSuccessResponse(m2, IF m2.ledState THEN MsgLedOn ELSE MsgLedOff)

\* a toggle that builds its response before it negates the field
HandleLedToggleEarlySend(m, env) ==
    LET m1 == sendSuccessResponse(m, IF m.ledState THEN MsgLedOn ELSE MsgLedOff)
        m2 == SetLedState(m1, ~m1.ledState)
    IN  DigitalWrite(m2, ledPin, Level(m2.ledState))

HandleLedToggle(m, env) ==
    LET m1 == SetLedState(m, ~m.ledState)
        m2 == DigitalWrite(m1, ledPin, Level(m1.ledState))
    IN  sendSuccessResponse(m2, IF m2.ledState THEN MsgLedOn ELSE MsgLedOff)

\* a relay handler pasted from the LED one that still assigns ledState
HandleRelayOnWrongField(m, env) ==
    LET m1 == DigitalWrite(m, relayPin, HIGH)
        m2 == SetLedState(m1, TRUE)
    IN  sendSuccessResponse(m2, MsgRelayOn)

HandleRelayOn(m, env) ==
    LET m1 == DigitalWrite(m, relayPin, HIGH)
        m2 == SetRelayState(m1, TRUE)
    IN  sendSuccessResponse(m2, MsgRelayOn)

\* an "off" handler pasted from the "on" one that still assigns true
HandleRelayOffPasted(m, env) ==
    LET m1 == DigitalWrite(m, relayPin, LOW)
        m2 == SetRelayState(m1, TRUE)
    IN  sendSuccessResponse(m2, MsgRelayOff)

HandleRelayOff(m, env) ==
    LET m1 == DigitalWrite(m, relayPin, LOW)
        m2 == SetRelayState(m1, FALSE)
    IN  sendSuccessResponse(m2, MsgRelayOff)

\* a sensor handler that clears the button latch once it has reported it
HandleSensorDataClearing(m, env) ==
    LET m1 == ServerSend(m, 200, "application/json",
               [analog_value |-> m.analogValue, voltage |-> Voltage(m.analogValue),
                button_pressed |-> m.buttonState,
                led_state |-> m.ledState, relay_state |-> m.relayState])
    IN  [m1 EXCEPT !.buttonState = FALSE]

HandleSensorData(m, env) ==
    ServerSend(m, 200, "application/json",
               [analog_value |-> m.analogValue, voltage |-> Voltage(m.analogValue),
                button_pressed |-> m.buttonState,
                led_state |-> m.ledState, relay_state |-> m.relayState])

\* a not-found handler that builds its document and never sends it
HandleNotFoundSilent(m, env) == m

HandleNotFound(m, env) ==
    ServerSend(m, 404, "application/json",
               [error |-> TRUE, message |-> MsgNotFound])

(***************************************************************************)
(* The routes setupRoutes registers, in registration order.                *)
(***************************************************************************)
\* a registration that names no method: server.on(p, h)
RouteAnyMethod(p, h) == [method |-> "ANY", uri |-> p, handler |-> h]

\* server.on(p, HTTP_GET, h)
Route(p, h) == [method |-> "GET", uri |-> p, handler |-> h]

RouteTable ==
    << Route("/", "root"),
       Route("/api/device/info", "deviceInfo"),
       Route("/api/led/on", "ledOn"),
       Route("/api/led/off", "ledOff"),
       Route("/api/led/toggle", "ledToggle"),
       Route("/api/relay/on", "relayOn"),
       Route("/api/relay/off", "relayOff"),
       Route("/api/sensor/data", "sensorData") >>

\* a route serves a request of its own method (any method if registered
\* with HTTP_ANY) and exactly its own path
CanHandle(route, req) ==
    /\ route.method = "ANY" \/ route.method = req.method
    /\ route.uri = req.uri

\* the first registered route that can handle the request, else the
\* not-found handler
FindHandler(rs, nf, req) ==
    LET hits == {i \in 1..Len(rs) : CanHandle(rs[i], req)}
    IN  IF hits = {} THEN nf
        ELSE rs[CHOOSE i \in hits : \A j \in hits : i <= j].handler

RunHandler(h, m, env) ==
    CASE h = "root" -> HandleRoot(m, env)
      [] h = "deviceInfo" -> HandleDeviceInfo(m, env)
      [] h = "ledOn" -> HandleLedOn(m, env)
      [] h = "ledOff" -> HandleLedOff(m, env)
      [] h = "ledToggle" -> HandleLedToggle(m, env)
      [] h = "relayOn" -> HandleRelayOn(m, env)
      [] h = "relayOff" -> HandleRelayOff(m, env)
      [] h = "sensorData" -> HandleSensorData(m, env)
      [] h = "notFound" -> HandleNotFound(m, env)

(***************************************************************************)
(* The loop body: handleClient, then updateSensorData, then delay.         *)
(***************************************************************************)
\* a loop body that samples before it handles the client
LoopSuccSampleFirst(p) ==
    CASE p = "updateSensorData" -> "handleClient"
      [] p = "handleClient" -> "delay"
      [] p = "delay" -> "updateSensorData"

LoopSucc(p) ==
    CASE p = "handleClient" -> "updateSensorData"
      [] p = "updateSensorData" -> "delay"
      [] p = "delay" -> "handleClient"

LoopPcs == {"handleClient", "updateSensorData", "delay"}

\* a wait that ends as soon as the radio is no longer idle
StillWaitingWhileIdle(st) == st = "WL_IDLE_STATUS"

\* while (WiFi.status() != WL_CONNECTED)
StillWaiting(st) == st # WL_CONNECTED

(***************************************************************************)
(* The second device: the same sketch on another board that is served the  *)
(* same requests in the same loop turns and reads its own input pins.  It  *)
(* is switched off unless a specification switches it on.                  *)
(***************************************************************************)
TwinOff == [on |-> FALSE]

TwinOn(pins) ==
    [on |-> TRUE, ledState |-> FALSE, relayState |-> FALSE,
     analogValue |-> 0, buttonState |-> FALSE,
     pin |-> pins, wire |-> <<>>, observed |-> <<>>]

\* the second device becomes t, if it is switched on
Mirror(t) == IF twin.on THEN t ELSE twin

\* the readings the second device can take
TwinReadings(S) == IF twin.on THEN S ELSE {CHOOSE x \in S : TRUE}

(***************************************************************************)
(* Initial state: the globals as their initialisers leave them, before     *)
(* setup runs.  The output pins hold whatever level the reset left.        *)
(***************************************************************************)
\* a sketch that marks "not sampled yet" with -1
PowerOnSentinel ==
    /\ pc = "setup"
    /\ wifiStatus = "WL_NO_SHIELD"
    /\ localIP = IpUnset
    /\ html = HtmlDoc(IpUnset)
    /\ routes = <<>>
    /\ notFound = "none"
    /\ listening = FALSE
    /\ ledState = FALSE
    /\ relayState = FALSE
    /\ analogValue = -1
    /\ buttonState = FALSE
    /\ pin \in [OutputPins -> Levels]
    /\ pending = <<>>
    /\ served = <<>>
    /\ wire = <<>>
    /\ observed = <<>>
    /\ turnTrace = <<>>
    /\ lastRead = <<>>

PowerOn ==
    /\ pc = "setup"
    /\ wifiStatus = "WL_NO_SHIELD"
    /\ localIP = IpUnset
    /\ html = HtmlDoc(IpUnset)
    /\ routes = <<>>
    /\ notFound = "none"
    /\ listening = FALSE
    /\ ledState = FALSE
    /\ relayState = FALSE
    /\ analogValue = 0
    /\ buttonState = FALSE
    /\ pin \in [OutputPins -> Levels]
    /\ pending = <<>>
    /\ served = <<>>
    /\ wire = <<>>
    /\ observed = <<>>
    /\ turnTrace = <<>>
    /\ lastRead = <<>>

Init == PowerOn /\ twin = TwinOff

\* both devices switched on, each with its own pin levels left by the reset
TwinInit == PowerOn /\ twin \in {TwinOn(pins) : pins \in [OutputPins -> Levels]}

(***************************************************************************)
(* setup                                                                   *)
(***************************************************************************)
\* a setup that sets the pin modes and leaves the levels as the reset left them
SetupGpioNoWrite ==
    /\ pc = "setup"
    /\ pc' = "connectToWiFi"
    /\ UNCHANGED <<netVars, devVars, logVars, twin>>

\* pinMode x3, digitalWrite(ledPin, LOW), digitalWrite(relayPin, LOW)
SetupGpio ==
    /\ pc = "setup"
    /\ pin' = DigitalWrite(DigitalWrite(Machine, ledPin, LOW), relayPin, LOW).pin
    /\ twin' = Mirror(DigitalWrite(DigitalWrite(twin, ledPin, LOW), relayPin, LOW))
    /\ pc' = "connectToWiFi"
    /\ UNCHANGED <<netVars, ledState, relayState, analogValue, buttonState, logVars>>

\* one evaluation of the while condition of connectToWiFi
WiFiPoll ==
    /\ pc = "connectToWiFi"
    /\ \E st \in WlStatus :
        /\ wifiStatus' = st
        /\ localIP' = IF st = WL_CONNECTED THEN IpAssigned ELSE localIP
        /\ pc' = IF StillWaiting(st) THEN "connectToWiFi" ELSE "setupRoutes"
    /\ UNCHANGED <<html, routes, notFound, listening, devVars, logVars, twin>>

SetupRoutes ==
    /\ pc = "setupRoutes"
    /\ routes' = RouteTable
    /\ notFound' = "notFound"
    /\ pc' = "serverBegin"
    /\ UNCHANGED <<wifiStatus, localIP, html, listening, devVars, logVars, twin>>

\* server.begin(), the serial prints, and the return into loop
ServerBegin ==
    /\ pc = "serverBegin"
    /\ listening' = TRUE
    /\ pc' = "handleClient"
    /\ UNCHANGED <<wifiStatus, localIP, html, routes, notFound, devVars, logVars, twin>>

(***************************************************************************)
(* A client's request reaches the listening server.                        *)
(***************************************************************************)
Arrive(limit) ==
    /\ listening
    /\ Len(pending) < MaxPending
    /\ Len(served) + Len(pending) < limit
    /\ \E r \in Requests : pending' = Append(pending, r)
    /\ UNCHANGED <<pc, netVars, devVars, served, wire, observed, turnTrace, lastRead, twin>>

(***************************************************************************)
(* loop                                                                    *)
(***************************************************************************)
\* server.handleClient(): serve the oldest pending request, if there is one
HandleClient ==
    /\ pc = "handleClient"
    /\ IF pending = <<>>
       THEN UNCHANGED <<devVars, logVars, twin>>
       ELSE \E heap \in FreeHeapSamples :
              LET req == Head(pending)
                  h == FindHandler(routes, notFound, req)
                  m == RunHandler(h, Machine, Platform(heap))
              IN  /\ twin' = Mirror(RunHandler(h, twin, Platform(heap)))
                  /\ lastRead' = lastRead
                  /\ ledState' = m.ledState
                  /\ relayState' = m.relayState
                  /\ analogValue' = m.analogValue
                  /\ buttonState' = m.buttonState
                  /\ pin' = m.pin
                  /\ wire' = m.wire
                  /\ observed' = m.observed
                  /\ pending' = Tail(pending)
                  /\ served' = Append(served, req)
                  /\ turnTrace' = Append(turnTrace, "request")
    /\ pc' = LoopSucc(pc)
    /\ UNCHANGED netVars

\* updateSensorData(): analogRead(analogPin), digitalRead(buttonPin)
UpdateSensorData ==
    /\ pc = "updateSensorData"
    /\ \E a \in AnalogSamples, lv \in Levels :
        /\ analogValue' = Sampled(Machine, a, lv).analogValue
        /\ buttonState' = Sampled(Machine, a, lv).buttonState
        /\ pin' = Sampled(Machine, a, lv).pin
        /\ lastRead' = <<a, lv>>
    /\ \E a2 \in TwinReadings(AnalogSamples), lv2 \in TwinReadings(Levels) :
        twin' = Mirror(Sampled(twin, a2, lv2))
    /\ turnTrace' = Append(turnTrace, "sample")
    /\ pc' = LoopSucc(pc)
    /\ UNCHANGED <<netVars, ledState, relayState, pending, served, wire, observed>>

\* delay(10) and the return of loop(): the turn ends
Delay ==
    /\ pc = "delay"
    /\ turnTrace' = <<>>
    /\ pc' = LoopSucc(pc)
    /\ UNCHANGED <<netVars, devVars, pending, served, wire, observed, lastRead, twin>>

Program ==
    \/ SetupGpio
    \/ WiFiPoll
    \/ SetupRoutes
    \/ ServerBegin
    \/ HandleClient
    \/ UpdateSensorData
    \/ Delay

\* one turn of loop() is made of these
LoopTurn == HandleClient \/ UpdateSensorData \/ Delay

Next == Program \/ Arrive(MaxRequests)

Spec == Init /\ [][Next]_vars

\* The same sketch with lighter traffic and the fairness the hardware gives:
\* the processor keeps executing the sketch.
BootNext == Program \/ Arrive(MaxBootRequests)

BootSpec == Init /\ [][BootNext]_vars /\ WF_vars(Program)

\* The sensor route on every ADC code: the loop is about to call handleClient
\* with one GET /api/sensor/data pending, and the latest sampling pass read
\* any code of the 12-bit converter and any button level.
SensorInit ==
    /\ pc = "handleClient"
    /\ wifiStatus = WL_CONNECTED
    /\ localIP = IpAssigned
    /\ html = HtmlDoc(IpUnset)
    /\ routes = RouteTable
    /\ notFound = "notFound"
    /\ listening = TRUE
    /\ ledState = FALSE
    /\ relayState = FALSE
    /\ pin = [p \in OutputPins |-> LOW]
    /\ \E a \in 0..AdcMax, lv \in Levels :
        LET m == Sampled([analogValue |-> 0, buttonState |-> FALSE], a, lv)
        IN  /\ analogValue = m.analogValue
            /\ buttonState = m.buttonState
            /\ lastRead = <<a, lv>>
    /\ pending = <<Req("GET", "/api/sensor/data")>>
    /\ served = <<>>
    /\ wire = <<>>
    /\ observed = <<>>
    /\ turnTrace = <<>>
    /\ twin = TwinOff

SensorNext == pending # <<>> /\ HandleClient

SensorSpec == SensorInit /\ [][SensorNext]_vars

\* Two devices in lockstep: the same requests, each its own pin readings.
TwinNext == Program \/ Arrive(MaxTwinRequests)

TwinSpec == TwinInit /\ [][TwinNext]_vars

TypeOK ==
    /\ pc \in {"setup", "connectToWiFi", "setupRoutes", "serverBegin"} \cup LoopPcs
    /\ ledState \in BOOLEAN /\ relayState \in BOOLEAN /\ buttonState \in BOOLEAN
    /\ analogValue \in AnalogSamples
    /\ pin \in [OutputPins -> Levels]
    /\ Len(wire) = Len(observed)

(***************************************************************************)
(* Vocabulary of the properties.                                           *)
(***************************************************************************)
GetLedOn == Req("GET", "/api/led/on")
GetLedOff == Req("GET", "/api/led/off")
GetLedToggle == Req("GET", "/api/led/toggle")
GetRelayOn == Req("GET", "/api/relay/on")
GetRelayOff == Req("GET", "/api/relay/off")
GetSensorData == Req("GET", "/api/sensor/data")
GetRoot == Req("GET", "/")
GetDeviceInfo == Req("GET", "/api/device/info")
GetUnknown == Req("GET", "/api/nope")
PostLedOn == Req("POST", "/api/led/on")

LedRequests == {GetLedOn, GetLedOff, GetLedToggle}
RelayRequests == {GetRelayOn, GetRelayOff}
SetRequests == {GetLedOn, GetLedOff, GetRelayOn, GetRelayOff}

Front(s) == SubSeq(s, 1, Len(s) - 1)
Prefix(s, n) == SubSeq(s, 1, n)

\* the effect the route table of the specification gives each LED request
LedOp(v, r) ==
    CASE r = GetLedOn -> TRUE
      [] r = GetLedOff -> FALSE
      [] r = GetLedToggle -> ~v
      [] OTHER -> v

RECURSIVE FoldLed(_)
FoldLed(s) == IF s = <<>> THEN FALSE ELSE LedOp(FoldLed(Front(s)), Last(s))

\* the value the most recent relay request commanded, false if there was none
RECURSIVE LastRelayCommand(_)
LastRelayCommand(s) ==
    IF s = <<>> THEN FALSE
    ELSE IF Last(s) = GetRelayOn THEN TRUE
    ELSE IF Last(s) = GetRelayOff THEN FALSE
    ELSE LastRelayCommand(Front(s))

\* a state field and its pin agree: HIGH iff true
PinsAgree(d) ==
    /\ d.pin[ledPin] = (IF d.ledState THEN HIGH ELSE LOW)
    /\ d.pin[relayPin] = (IF d.relayState THEN HIGH ELSE LOW)

\* (method, path) is one of the eight registered GET routes
Registered(r) == r.method = "GET" /\ r.uri \in RegisteredPaths

(***************************************************************************)
(* C1: after any sequence of served requests, ledState is the fold of the  *)
(* LED operations among them over the initial value false (on -> true,     *)
(* off -> false, toggle -> negation).                                      *)
(***************************************************************************)
C1_LedStateIsFold == ledState = FoldLed(served)

C1_Witness ==
    /\ served = <<GetLedOn, GetLedToggle, GetLedToggle>>
    /\ ledState = TRUE

(***************************************************************************)
(* C2: once setup has initialised the GPIO, in every state between two     *)
(* steps of the sketch (so at every loop-turn boundary) and at the moment  *)
(* each response was sent, the LED pin level equals ledState and the relay *)
(* pin level equals relayState.                                            *)
(***************************************************************************)
C2_PinsMatchState ==
    /\ pc # "setup" => PinsAgree(Snapshot(Machine))
    /\ \A i \in 1..Len(observed) : PinsAgree(observed[i])

C2_Witness ==
    /\ served = <<GetLedToggle, GetRelayOn, GetLedOff>>
    /\ observed[1].pin[ledPin] = HIGH
    /\ observed[2].pin[relayPin] = HIGH
    /\ pin[ledPin] = LOW
    /\ pin[relayPin] = HIGH

(***************************************************************************)
(* C3: every request that is not one of the eight registered GET routes    *)
(* is answered with status 404 and a body with error = true and a message, *)
(* whatever was served before it.                                          *)
(***************************************************************************)
C3_UnmatchedIs404 ==
    \A i \in 1..Len(served) :
        ~Registered(served[i]) =>
            /\ i <= Len(wire)
            /\ wire[i].status = 404
            /\ "error" \in DOMAIN wire[i].body
            /\ wire[i].body.error = TRUE
            /\ "message" \in DOMAIN wire[i].body

C3_Witness ==
    /\ served = <<GetLedOn, PostLedOn, GetUnknown>>
    /\ ledState = TRUE
    /\ wire[2].status = 404
    /\ wire[3].status = 404

(***************************************************************************)
(* C4: relayState is the value the most recent relay request commanded     *)
(* (true for /api/relay/on, false for /api/relay/off, false if none was    *)
(* served), and the relay_state field of every /api/relay/off response is  *)
(* false.                                                                  *)
(***************************************************************************)
C4_RelayIsLastCommand ==
    /\ relayState = LastRelayCommand(served)
    /\ \A i \in 1..Len(served) :
        served[i] = GetRelayOff =>
            /\ i <= Len(wire)
            /\ "relay_state" \in DOMAIN wire[i].body
            /\ wire[i].body.relay_state = FALSE

C4_Witness ==
    /\ Len(served) >= 2
    /\ served[Len(served) - 1] = GetRelayOn
    /\ Last(served) = GetRelayOff
    /\ observed[Len(served) - 1].relayState = TRUE
    /\ relayState = FALSE
    /\ Last(wire).body.relay_state = FALSE

(***************************************************************************)
(* C5: the response of every LED or relay handler carries success = true   *)
(* and the led_state and relay_state the device has after that handler's   *)
(* mutation; the toggle's message is the "LED on" message exactly when the *)
(* new ledState is true; and a /api/sensor/data response carries the       *)
(* led_state and relay_state of the device as the requests before it left  *)
(* them.                                                                   *)
(***************************************************************************)
C5_ResponseCarriesNewState ==
    \A i \in 1..Len(served) :
        LET led == FoldLed(Prefix(served, i))
            relay == LastRelayCommand(Prefix(served, i))
        IN  /\ served[i] \in LedRequests \cup RelayRequests =>
                /\ i <= Len(wire)
                /\ wire[i].status = 200
                /\ DOMAIN wire[i].body = {"success", "message", "led_state", "relay_state"}
                /\ wire[i].body.success = TRUE
                /\ wire[i].body.led_state = led
                /\ wire[i].body.relay_state = relay
            /\ served[i] = GetLedToggle =>
                (wire[i].body.message = MsgLedOn <=> led)
            /\ served[i] = GetSensorData =>
                /\ i <= Len(wire)
                /\ "led_state" \in DOMAIN wire[i].body
                /\ wire[i].body.led_state = led
                /\ wire[i].body.relay_state = relay

C5_Witness ==
    /\ Len(served) >= 2
    /\ served[1] = GetLedToggle
    /\ served[2] = GetSensorData
    /\ wire[1].body.success = TRUE
    /\ wire[1].body.message = MsgLedOn
    /\ wire[1].body.led_state = TRUE
    /\ wire[1].body.relay_state = FALSE
    /\ wire[2].body.led_state = TRUE

(***************************************************************************)
(* C6: a set handler served twice in a row sends the same response and     *)
(* leaves the same device state both times (on: true both times); the same *)
(* holds of every repeated request except /api/led/toggle, whose second    *)
(* application changes ledState again.                                     *)
(***************************************************************************)
C6_SetHandlersIdempotent ==
    \A i \in 1..(Len(served) - 1) :
        served[i] = served[i + 1] =>
            /\ i + 1 <= Len(wire)
            /\ served[i] \in SetRequests => wire[i] = wire[i + 1]
            /\ served[i] = GetLedOn =>
                observed[i].ledState /\ observed[i + 1].ledState
            /\ served[i] = GetRelayOn =>
                observed[i].relayState /\ observed[i + 1].relayState
            /\ served[i] # GetLedToggle => observed[i] = observed[i + 1]
            /\ served[i] = GetLedToggle =>
                observed[i].ledState # observed[i + 1].ledState

C6_Witness ==
    /\ served = <<GetLedOn, GetLedOn, GetLedOn>>
    /\ wire[1] = wire[2]
    /\ ledState = TRUE

(***************************************************************************)
(* C7: nothing of the server exists before a WiFi.status() poll returned   *)
(* WL_CONNECTED: no route is registered, the server does not listen, the   *)
(* loop is not entered and no request is accepted or served.  Until then   *)
(* the sketch is in connectToWiFi and can always poll again.  Once a poll  *)
(* returns WL_CONNECTED, the server is eventually started and the loop     *)
(* entered.                                                                *)
(***************************************************************************)
ServerExists ==
    \/ routes # <<>>
    \/ listening
    \/ pc \in {"setupRoutes", "serverBegin"} \cup LoopPcs
    \/ pending # <<>>
    \/ served # <<>>
    \/ wire # <<>>

C7_ServeOnlyAfterAssociation ==
    /\ [](ServerExists => wifiStatus = WL_CONNECTED)
    /\ []((pc # "setup" /\ wifiStatus # WL_CONNECTED) =>
            (pc = "connectToWiFi" /\ ENABLED WiFiPoll))
    /\ ((wifiStatus = WL_CONNECTED) ~> (listening /\ pc \in LoopPcs))

C7_Witness ==
    /\ wifiStatus = WL_CONNECTED
    /\ listening
    /\ pc \in LoopPcs
    /\ served # <<>>

(***************************************************************************)
(* C8: a loop turn handles at most one request and makes exactly one       *)
(* sampling pass, the request first: the turn has done nothing when        *)
(* handleClient is called, at most one request and no sampling when        *)
(* updateSensorData is called, and exactly one sampling pass, after the    *)
(* request if there was one, when the turn ends.                           *)
(***************************************************************************)
C8_OneRequestThenOneSample ==
    /\ pc \notin LoopPcs => turnTrace = <<>>
    /\ pc = "handleClient" => turnTrace = <<>>
    /\ pc = "updateSensorData" => turnTrace \in {<<>>, <<"request">>}
    /\ pc = "delay" => turnTrace \in {<<"sample">>, <<"request", "sample">>}

C8_Witness ==
    /\ pc = "delay"
    /\ turnTrace = <<"request", "sample">>
    /\ pending # <<>>
    /\ Len(served) = 1

(***************************************************************************)
(* C9: in every state of the running loop the next step of the loop turn   *)
(* can be taken, whatever requests were served; a turn that has started    *)
(* reaches its end, from where the next one can start; and every served    *)
(* request was answered with exactly one response in the step that         *)
(* dispatched it.                                                          *)
(***************************************************************************)
C9_LoopNeverStops ==
    /\ [](pc \in LoopPcs => ENABLED LoopTurn)
    /\ [](Len(wire) = Len(served))
    /\ ((pc = "handleClient") ~> (pc = "delay"))

C9_Witness ==
    /\ pc = "handleClient"
    /\ served = <<GetUnknown, PostLedOn>>
    /\ wire[1].status = 404
    /\ wire[2].status = 404
    /\ Len(wire) = 2

(***************************************************************************)
(* C10: ledState changes only in a step that serves a /api/led/* request,  *)
(* relayState only in a step that serves a /api/relay/* request,           *)
(* analogValue and buttonState only in the sampling pass; an LED step      *)
(* leaves relayState, analogValue and buttonState alone, a relay step      *)
(* leaves ledState, analogValue and buttonState alone, and a sampling pass *)
(* leaves ledState, relayState and both output pins alone.                 *)
(***************************************************************************)
ServesOneOf(S) ==
    /\ pc = "handleClient"
    /\ Len(served') = Len(served) + 1
    /\ Last(served') \in S

SamplingPass ==
    /\ pc = "updateSensorData"
    /\ turnTrace' = Append(turnTrace, "sample")

C10_FieldOwnership ==
    [][ /\ ledState' # ledState => ServesOneOf(LedRequests)
        /\ relayState' # relayState => ServesOneOf(RelayRequests)
        /\ (analogValue' # analogValue \/ buttonState' # buttonState) => SamplingPass
        /\ ServesOneOf(LedRequests) =>
               UNCHANGED <<relayState, analogValue, buttonState>>
        /\ ServesOneOf(RelayRequests) =>
               UNCHANGED <<ledState, analogValue, buttonState>>
        /\ SamplingPass => UNCHANGED <<ledState, relayState, pin>>
      ]_vars

C10_Witness ==
    /\ ledState = TRUE
    /\ relayState = TRUE
    /\ analogValue = AdcMax
    /\ buttonState = TRUE
    /\ Len(served) = 2

(***************************************************************************)
(* C11: a step that serves GET /, GET /api/device/info,                    *)
(* GET /api/sensor/data or a request no route matches leaves ledState,     *)
(* relayState, analogValue, buttonState and both output pins unchanged.    *)
(***************************************************************************)
ReadOnlyRequests ==
    {GetRoot, GetDeviceInfo, GetSensorData, GetUnknown, PostLedOn}

C11_ReadOnlyHandlersFrame ==
    [][ ServesOneOf(ReadOnlyRequests) =>
            UNCHANGED <<ledState, relayState, analogValue, buttonState, pin>>
      ]_vars

C11_Witness ==
    /\ served = <<GetLedOn, GetRelayOn, GetSensorData>>
    /\ ledState = TRUE
    /\ relayState = TRUE
    /\ pin[ledPin] = HIGH
    /\ pin[relayPin] = HIGH
    /\ buttonState = TRUE
    /\ analogValue = AdcMax
    /\ Last(wire).body.button_pressed = TRUE
    /\ turnTrace = <<"request">>

(***************************************************************************)
(* C12: in every GET /api/sensor/data response the voltage is              *)
(* analog_value * 3.3 / 4095 for the analog_value of the same response,    *)
(* for every analog_value in 0..4095: 0 gives 0 and 4095 gives 3.3.  The   *)
(* voltage is compared as an exact fraction, 3.3 / 4095 being 11 / 13650.  *)
(***************************************************************************)
RECURSIVE GCD(_, _)
GCD(a, b) == IF b = 0 THEN a ELSE GCD(b, a % b)

\* a fraction in lowest terms
Reduced(n, d) == LET g == GCD(n, d) IN <<n \div g, d \div g>>

C12_VoltageIsScaledAnalog ==
    \A i \in 1..Len(served) :
        served[i] = GetSensorData =>
            LET b == wire[i].body
            IN  /\ b.analog_value \in 0..4095
                /\ b.voltage.den > 0
                /\ Reduced(b.voltage.num, b.voltage.den)
                       = Reduced(b.analog_value * 11, 13650)
                /\ b.analog_value = 0 => b.voltage.num = 0
                /\ b.analog_value = 4095 =>
                       Reduced(b.voltage.num, b.voltage.den) = <<33, 10>>

C12_Witness ==
    /\ served = <<GetSensorData>>
    /\ wire[1].body.analog_value = 4095
    /\ Reduced(wire[1].body.voltage.num, wire[1].body.voltage.den) = <<33, 10>>

(***************************************************************************)
(* C13: analogValue and buttonState always hold what the latest sampling   *)
(* pass read from the analog and button pins (0 and false before the first *)
(* pass), whatever they held before; and right after a                     *)
(* GET /api/sensor/data request is served, its analog_value and            *)
(* button_pressed are what the latest pass before the dispatch read.       *)
(***************************************************************************)
ReadAnalog == IF lastRead = <<>> THEN 0 ELSE lastRead[1]
ReadButton == lastRead # <<>> /\ lastRead[2] = HIGH

C13_StateIsLatestSample ==
    /\ analogValue = ReadAnalog
    /\ buttonState = ReadButton
    /\ (turnTrace = <<"request">> /\ Last(served) = GetSensorData) =>
        /\ Len(wire) = Len(served)
        /\ Last(wire).body.analog_value = ReadAnalog
        /\ Last(wire).body.button_pressed = ReadButton

C13_Witness ==
    /\ served = <<GetSensorData, GetSensorData, GetSensorData>>
    /\ turnTrace = <<"request">>
    /\ wire[1].body.analog_value = 0
    /\ wire[1].body.button_pressed = FALSE
    /\ wire[2].body.analog_value = AdcMax
    /\ wire[2].body.button_pressed = TRUE
    /\ wire[3].body.analog_value = 0
    /\ wire[3].body.button_pressed = TRUE
    /\ lastRead = <<0, HIGH>>

(***************************************************************************)
(* C14: analogValue is in 0..4095 in every reachable state, every analog   *)
(* read returning a value in that range.                                   *)
(***************************************************************************)
C14_AnalogInRange ==
    /\ AnalogSamples \subseteq 0..4095
    /\ analogValue \in 0..4095
    /\ \A i \in 1..Len(served) :
        served[i] = GetSensorData => wire[i].body.analog_value \in 0..4095

C14_Witness ==
    /\ analogValue = 4095
    /\ lastRead[1] = 4095
    /\ Len(served) > 0
    /\ Last(served) = GetSensorData
    /\ Last(wire).body.analog_value = 4095

(***************************************************************************)
(* C15 as stated: from the end of GPIO initialisation until the first      *)
(* request is served, ledState and relayState are false, both output pins  *)
(* are LOW, analogValue is 0 and buttonState is false.                     *)
(***************************************************************************)
C15_InitialUntilFirstRequest ==
    (pc # "setup" /\ served = <<>>) =>
        /\ ledState = FALSE
        /\ relayState = FALSE
        /\ pin[ledPin] = LOW
        /\ pin[relayPin] = LOW
        /\ analogValue = 0
        /\ buttonState = FALSE

(***************************************************************************)
(* C15 as amended: ledState and relayState are false from the start, and   *)
(* both output pins LOW from the end of GPIO initialisation, until the     *)
(* first request is served; analogValue is 0 and buttonState false until   *)
(* the first sampling pass, which ends the first loop turn and can come    *)
(* before the first request.                                               *)
(***************************************************************************)
C15_InitialUntilFirstSample ==
    /\ served = <<>> => (ledState = FALSE /\ relayState = FALSE)
    /\ (pc # "setup" /\ served = <<>>) => (pin[ledPin] = LOW /\ pin[relayPin] = LOW)
    /\ lastRead = <<>> => (analogValue = 0 /\ buttonState = FALSE)

C15_Witness ==
    /\ pc \in LoopPcs
    /\ served = <<>>
    /\ lastRead = <<AdcMax, HIGH>>
    /\ analogValue = AdcMax
    /\ buttonState = TRUE
    /\ ledState = FALSE
    /\ relayState = FALSE
    /\ pin[ledPin] = LOW
    /\ pin[relayPin] = LOW

(***************************************************************************)
(* C16: a step that serves GET /api/sensor/data runs before the sampling   *)
(* pass of its loop turn and reports what the sampling pass of the turn    *)
(* before read; in the first loop turn after boot, when no pass has run,   *)
(* it reports analog_value 0 and button_pressed false.                     *)
(***************************************************************************)
C16_SensorReportsPreviousTurn ==
    [][ ServesOneOf({GetSensorData}) =>
            /\ turnTrace = <<>>
            /\ lastRead' = lastRead
            /\ Last(wire').body.analog_value = ReadAnalog
            /\ Last(wire').body.button_pressed = ReadButton
            /\ lastRead = <<>> =>
                /\ Last(wire').body.analog_value = 0
                /\ Last(wire').body.button_pressed = FALSE
      ]_vars

C16_Witness ==
    /\ pc = "delay"
    /\ turnTrace = <<"request", "sample">>
    /\ served = <<GetSensorData>>
    /\ wire[1].body.analog_value = 0
    /\ wire[1].body.button_pressed = FALSE
    /\ lastRead = <<AdcMax, HIGH>>
    /\ analogValue = AdcMax

(***************************************************************************)
(* C17: two devices that are served the same requests and read different   *)
(* analog and button values have, after GPIO initialisation, equal         *)
(* ledState, relayState and output pin levels in every state, and equal    *)
(* led_state and relay_state fields in every pair of responses.            *)
(***************************************************************************)
C17_OutputsIgnoreInputs ==
    (twin.on /\ pc # "setup") =>
        /\ twin.ledState = ledState
        /\ twin.relayState = relayState
        /\ twin.pin = pin
        /\ Len(twin.wire) = Len(wire)
        /\ \A i \in 1..Len(wire) :
            /\ DOMAIN twin.wire[i].body = DOMAIN wire[i].body
            /\ "led_state" \in DOMAIN wire[i].body =>
                /\ twin.wire[i].body.led_state = wire[i].body.led_state
                /\ twin.wire[i].body.relay_state = wire[i].body.relay_state

C17_Witness ==
    /\ twin.on
    /\ served = <<GetLedToggle>>
    /\ analogValue # twin.analogValue
    /\ buttonState # twin.buttonState
    /\ wire[1].body.led_state = TRUE
    /\ twin.wire[1].body.led_state = TRUE
    /\ pin[ledPin] = HIGH
    /\ twin.pin[ledPin] = HIGH

(***************************************************************************)
(* C18: every GET / is answered with status 200, content type text/html    *)
(* and the same document, the one the global html was initialised with     *)
(* before WiFi association (it carries the address of that moment); html   *)
(* never changes afterwards, whatever was served and whatever address the  *)
(* device got.                                                             *)
(***************************************************************************)
C18_RootIsStatic ==
    /\ html = HtmlDoc(IpUnset)
    /\ \A i \in 1..Len(served) :
        served[i] = GetRoot =>
            /\ i <= Len(wire)
            /\ wire[i] = [status |-> 200, ctype |-> "text/html",
                          body |-> [document |-> HtmlDoc(IpUnset)]]

C18_Witness ==
    /\ served = <<GetRoot, GetLedToggle, GetRoot>>
    /\ localIP = IpAssigned
    /\ ledState = TRUE
    /\ wire[1] = wire[3]
    /\ wire[3].status = 200
    /\ wire[3].ctype = "text/html"
====
